---- MODULE Spec2Model ----
(***************************************************************************)
(* Model of chatr.rag.retriever.HybridRetriever: the in-memory corpus, the *)
(* BM25 lexical index, the Chroma vector collection, the pickled index on  *)
(* disk, and the operations add_documents, retrieve and initialize; and of *)
(* chatr.rag.orchestrator: QueryDecomposer, MultiHopRetriever and          *)
(* WorkflowOrchestrator.process_complex_query, with the language-model     *)
(* client and the retriever as collaborators that answer or raise.         *)
(*                                                                         *)
(* Scores are fixed point: a raw BM25 score and a similarity carry three   *)
(* decimals (x1000), a normalized score is in thousandths, a weight is in  *)
(* tenths (bm25_weight = 0.3 is 3), so a combined score is x10000.         *)
(***************************************************************************)
EXTENDS Integers, Sequences, FiniteSets, TLC

VARIABLES
    documents,        \* self.documents: the corpus, in append order
    bm25,             \* self.bm25: None, or the index built from a tokenized corpus
    embedding_model,  \* self.embedding_model is not None
    collection,       \* the Chroma collection "r_docs" (persistent, on disk)
    disk,             \* bm25_index.pkl and documents.pkl under index_dir
    hashSeed,         \* this process's str hash randomization (set iteration order)
    last,             \* the last retrieve call and what it returned, while the store is as it read it
    addHist,          \* the last add_documents call, when it was the previous operation
    wpc,              \* position of an add_documents call that is in progress
    pending           \* the batch of the add_documents call in progress

VARIABLES
    stage,                  \* where an orchestration run stands
    complex_query,          \* the user_query of process_complex_query
    sub_questions,          \* what decompose_query returned
    max_docs_per_question,  \* the parameter of multi_hop_retrieve
    hop,                    \* sub-questions multi_hop_retrieve has processed
    retrieval_results,      \* the dict multi_hop_retrieve fills, in insertion order
    context_from_previous,  \* the context tags accumulated by the hops
    final_response,         \* the answer, as synthesized and then as validated
    run                     \* what happened in the run so far

retriever == <<documents, bm25, embedding_model, collection, disk, hashSeed, last,
               addHist, wpc, pending>>

orchestration == <<stage, complex_query, sub_questions, max_docs_per_question, hop,
                   retrieval_results, context_from_previous, final_response, run>>

vars == <<retriever, orchestration>>

----------------------------------------------------------------------------
(* Bounds of the model *)

MaxDocs == 3        \* documents the corpus may hold
MaxTopK == 2        \* largest top_k a caller passes

(* Inputs *)

DocIds == {"d1", "d2", "d3"}
Contents == { <<"a">>, <<"a", " ", "b">> }     \* "a" and "a b"
Queries == { <<"a">>, <<"b">> }
Weights == {0, 3, 10}                          \* bm25_weight 0, 0.3 (the default), 1
TopKs == (0 - 1)..MaxTopK                      \* top_k, a negative one included
Vocab == << <<"a">>, <<"b">> >>                \* the words of Contents and Queries

\* The batches ingestion supplies: two documents, a third, a new version of the
\* first (the same id, other content), and a batch that repeats an id
Batches == { << [id |-> "d1", content |-> <<"a">>],
                [id |-> "d2", content |-> <<"a", " ", "b">>] >>,
             << [id |-> "d3", content |-> <<"a">>] >>,
             << [id |-> "d1", content |-> <<"a", " ", "b">>] >>,
             << [id |-> "d2", content |-> <<"a">>],
                [id |-> "d2", content |-> <<"a", " ", "b">>] >> }

\* Orders in which a set of id strings is iterated, one per hash seed
HashOrders == { <<"d1", "d2", "d3">>, <<"d3", "d2", "d1">> }


----------------------------------------------------------------------------
(* Sequences *)

Min2(a, b) == IF a < b THEN a ELSE b

Max2(a, b) == IF a > b THEN a ELSE b

RECURSIVE SumSeq(_)
SumSeq(s) == IF s = <<>> THEN 0 ELSE Head(s) + SumSeq(Tail(s))

RECURSIVE MaxSeq(_)
MaxSeq(s) == IF Len(s) = 1 THEN Head(s) ELSE Max2(Head(s), MaxSeq(Tail(s)))

\* s[:k] of Python, for any integer k
PySlice(s, k) ==
    IF k >= 0 THEN SubSeq(s, 1, Min2(k, Len(s)))
    ELSE SubSeq(s, 1, Max2(Len(s) + k, 0))

\* sorted(items, key = score, reverse = True): stable, equal scores keep their order
RECURSIVE InsertDesc(_, _)
InsertDesc(sorted, x) ==
    IF sorted = <<>> THEN <<x>>
    ELSE IF Head(sorted).score >= x.score
         THEN <<Head(sorted)>> \o InsertDesc(Tail(sorted), x)
         ELSE <<x>> \o sorted

RECURSIVE SortedDesc(_)
SortedDesc(items) ==
    IF items = <<>> THEN <<>>
    ELSE InsertDesc(SortedDesc(SubSeq(items, 1, Len(items) - 1)), items[Len(items)])

----------------------------------------------------------------------------
(* Text *)

\* str.split(): the maximal runs of non-blank characters
RECURSIVE SplitFrom(_, _, _)
SplitFrom(text, i, word) ==
    IF i > Len(text)
    THEN IF word = <<>> THEN <<>> ELSE <<word>>
    ELSE IF text[i] = " "
         THEN (IF word = <<>> THEN <<>> ELSE <<word>>) \o SplitFrom(text, i + 1, <<>>)
         ELSE SplitFrom(text, i + 1, Append(word, text[i]))

Split(text) == SplitFrom(text, 1, <<>>)

Count(tokens, word) == Cardinality({ i \in 1..Len(tokens) : tokens[i] = word })

----------------------------------------------------------------------------
(* The lexical index: rank_bm25.BM25Okapi, with k1 = 1.5, b = 0.75 and     *)
(* epsilon = 0.25, in fixed point.                                         *)

\* ln(x + 0.5) x 1000 for x = 0, 1, 2, ...: LnHalf[x + 1]
LnHalf == <<-693, 405, 916, 1253, 1504, 1705, 1872, 2015, 2140>>

NoBM25 == [built |-> FALSE, corpus |-> <<>>, idf |-> <<>>]

\* nd[word]: the number of documents that hold the word
DocFreq(corpus, word) == Cardinality({ i \in 1..Len(corpus) : Count(corpus[i], word) > 0 })

CorpusWords(corpus) == SelectSeq(Vocab, LAMBDA word : DocFreq(corpus, word) > 0)

RawIdf(corpus, word) ==
    LnHalf[Len(corpus) - DocFreq(corpus, word) + 1] - LnHalf[DocFreq(corpus, word) + 1]

\* _calc_idf: a negative idf is replaced by epsilon * average_idf
Idf(corpus, word) ==
    LET words == CorpusWords(corpus)
        average_idf == SumSeq([i \in 1..Len(words) |-> RawIdf(corpus, words[i])]) \div Len(words)
    IN  IF DocFreq(corpus, word) = 0 THEN 0
        ELSE IF RawIdf(corpus, word) < 0 THEN average_idf \div 4
        ELSE RawIdf(corpus, word)

\* BM25Okapi(tokenized_texts) for texts = [doc.content for doc in docs]: the
\* tokenized corpus and self.idf, here one entry per word of Vocab
BuildBM25(docs) ==
    LET corpus == [i \in 1..Len(docs) |-> Split(docs[i].content)]
    IN  [built |-> TRUE, corpus |-> corpus,
         idf |-> [v \in 1..Len(Vocab) |-> Idf(corpus, Vocab[v])]]

\* self.idf.get(q) or 0
WordIdf(bm, word) ==
    IF \E v \in 1..Len(Vocab) : Vocab[v] = word
    THEN bm.idf[CHOOSE v \in 1..Len(Vocab) : Vocab[v] = word]
    ELSE 0

\* One query term's share of a document's score:
\* idf * f * (k1 + 1) / (f + k1 * (1 - b + b * doc_len / avgdl)), avgdl = total / N
TermScore(bm, i, word) ==
    LET f == Count(bm.corpus[i], word)
        total == SumSeq([j \in 1..Len(bm.corpus) |-> Len(bm.corpus[j])])
    IN  (WordIdf(bm, word) * 20 * f * total)
            \div (8 * f * total + 3 * total + 9 * Len(bm.corpus[i]) * Len(bm.corpus))

\* BM25Okapi.get_scores(query_tokens): one score per corpus position
GetScores(bm, query_tokens) ==
    [i \in 1..Len(bm.corpus) |->
        SumSeq([t \in 1..Len(query_tokens) |-> TermScore(bm, i, query_tokens[t])])]

\* _bm25_retrieve: np.argsort(scores)[::-1][:top_k] (ascending and stable, then
\* reversed: equal scores come out by descending position)
BM25Retrieve(bm, query, top_k) ==
    LET scores == GetScores(bm, Split(query))
        n == Len(scores)
        byPositionDesc == [i \in 1..n |-> [idx |-> n + 1 - i, score |-> scores[n + 1 - i]]]
    IN  PySlice(SortedDesc(byPositionDesc), top_k)

----------------------------------------------------------------------------
(* The vector index: the embedding model and the Chroma collection *)

NoCollection == [exists |-> FALSE, entries |-> <<>>]

\* embedding_model.encode(text): a deterministic vector per text (here the
\* count of each word of the vocabulary)
Embed(text) == [v \in 1..Len(Vocab) |-> Count(Split(text), Vocab[v])]

\* Chroma's default distance: squared L2
Distance(x, y) == SumSeq([v \in 1..Len(x) |-> (x[v] - y[v]) * (x[v] - y[v])])

\* similarity = 1 / (1 + distance)
Similarity(distance) == 1000 \div (1 + distance)

CollectionIds(coll) == { coll.entries[i].id : i \in 1..Len(coll.entries) }

HasDuplicateIds(docs) ==
    \E i, j \in 1..Len(docs) : i < j /\ docs[i].id = docs[j].id

\* collection.add(embeddings, documents, metadatas, ids): the records whose id
\* the collection already holds are ignored (chromadb >= 0.4, the versions
\* with PersistentClient)
CollectionAdd(coll, docs) ==
    LET records == [i \in 1..Len(docs) |->
            [id |-> docs[i].id, content |-> docs[i].content,
             embedding |-> Embed(docs[i].content)]]
    IN  [exists |-> TRUE,
         entries |-> coll.entries \o SelectSeq(records, LAMBDA r : r.id \notin CollectionIds(coll))]

\* collection.add raises DuplicateIDError when the batch repeats an id
CollectionAddRaises(docs) == HasDuplicateIds(docs)

\* collection.query(query_embeddings, n_results): the nearest entries first,
\* entries at the same distance in insertion order
CollectionQuery(coll, query_embedding, n_results) ==
    LET byInsertion == [i \in 1..Len(coll.entries) |->
            [id |-> coll.entries[i].id,
             score |-> 0 - Distance(coll.entries[i].embedding, query_embedding)]]
    IN  SubSeq(SortedDesc(byInsertion), 1, Min2(n_results, Len(coll.entries)))

\* _dense_retrieve raises: get_collection on a collection that does not exist,
\* encode on a model that is None, query with n_results <= 0
DenseRaises(coll, emb, top_k) == ~coll.exists \/ ~emb \/ top_k <= 0

\* _dense_retrieve: (doc_id, similarity) pairs
DenseRetrieve(coll, query, top_k) ==
    LET found == CollectionQuery(coll, Embed(query), top_k)
    IN  [i \in 1..Len(found) |-> [id |-> found[i].id, score |-> Similarity(0 - found[i].score)]]

----------------------------------------------------------------------------
(* Fusion: _hybrid_rerank *)

MaxOf(S) == CHOOSE x \in S : \A y \in S : y <= x

\* score / max if max > 0 else 0, for a pass's whole result list
Normalize(results) ==
    IF results = <<>> THEN results
    ELSE LET max == MaxSeq([i \in 1..Len(results) |-> results[i].score])
         IN  [i \in 1..Len(results) |->
                [results[i] EXCEPT !.score = IF max > 0 THEN (@ * 1000) \div max ELSE 0]]

\* bm25_scores: the positions of bm25_results that name a document with this id
LexicalHits(docs, bm25_results, id) ==
    { p \in 1..Len(bm25_results) :
        /\ bm25_results[p].idx <= Len(docs)
        /\ docs[bm25_results[p].idx].id = id }

\* bm25_scores.get(doc_id, 0): a later assignment to the same key replaces the earlier
LexicalScore(docs, bm25_results, id) ==
    IF LexicalHits(docs, bm25_results, id) = {} THEN 0
    ELSE bm25_results[MaxOf(LexicalHits(docs, bm25_results, id))].score

DenseHits(dense_results, id) == { p \in 1..Len(dense_results) : dense_results[p].id = id }

\* dense_scores.get(doc_id, 0)
DenseScore(dense_results, id) ==
    IF DenseHits(dense_results, id) = {} THEN 0
    ELSE dense_results[MaxOf(DenseHits(dense_results, id))].score

\* all_doc_ids = set(bm25_scores.keys()) | set(dense_scores.keys())
AllDocIds(docs, bm25_results, dense_results) ==
    { id \in DocIds : LexicalHits(docs, bm25_results, id) # {} \/ DenseHits(dense_results, id) # {} }

\* for doc_id in all_doc_ids: a set of str is iterated in the order its hashes give
IterationOrder(seed, ids) == SelectSeq(seed, LAMBDA id : id \in ids)

\* A fusion that gives the vector term the lexical weight
CombinedScore_m(bm25_weight, bm25_score, dense_score) ==
    bm25_weight * bm25_score + bm25_weight * dense_score

\* combined_score = bm25_weight * bm25_score + (1 - bm25_weight) * dense_score
CombinedScore(bm25_weight, bm25_score, dense_score) ==
    bm25_weight * bm25_score + (10 - bm25_weight) * dense_score

\* A fusion that leaves the candidates in iteration order
SortCombined_m(items) == items

\* sorted(combined_scores.items(), key = score, reverse = True)
SortCombined(items) == SortedDesc(items)

\* [:top_k]
TopK(items, top_k) == PySlice(items, top_k)

\* doc_lookup = {doc.id: doc for doc in self.documents}: the last document of an id
DocLookup(docs, id) == docs[MaxOf({ i \in 1..Len(docs) : docs[i].id = id })]

CorpusIds(docs) == { docs[i].id : i \in 1..Len(docs) }

HybridRerank(docs, seed, bm25_results, dense_results, top_k, bm25_weight) ==
    LET lexical == Normalize(bm25_results)
        dense == Normalize(dense_results)
        order == IterationOrder(seed, AllDocIds(docs, lexical, dense))
        combined_scores == [i \in 1..Len(order) |->
            [id |-> order[i],
             score |-> CombinedScore(bm25_weight,
                                     LexicalScore(docs, lexical, order[i]),
                                     DenseScore(dense, order[i]))]]
        sorted_docs == TopK(SortCombined(combined_scores), top_k)
        found == SelectSeq(sorted_docs, LAMBDA item : item.id \in CorpusIds(docs))
    IN  [i \in 1..Len(found) |-> [doc |-> DocLookup(docs, found[i].id), score |-> found[i].score]]

----------------------------------------------------------------------------
(* retrieve *)

\* if not self.bm25 or not self.embedding_model: return []
Uninitialized(bm, emb) == ~bm.built \/ ~emb

\* self.bm25.get_scores on None
BM25Raises(bm) == ~bm.built

\* What a retrieve call returns or that it raises, as a function of the store
\* it reads
RetrieveCall(docs, bm, coll, emb, seed, query, top_k, bm25_weight) ==
    IF Uninitialized(bm, emb) THEN [raised |-> FALSE, result |-> <<>>]
    ELSE IF BM25Raises(bm) \/ DenseRaises(coll, emb, top_k * 2)
    THEN [raised |-> TRUE, result |-> <<>>]
    ELSE [raised |-> FALSE,
          result |-> HybridRerank(docs, seed,
                                  BM25Retrieve(bm, query, top_k * 2),
                                  DenseRetrieve(coll, query, top_k * 2),
                                  top_k, bm25_weight)]

----------------------------------------------------------------------------
(* add_documents, _add_to_vector_db, _save_index, _load_index *)

\* raise ValueError("Embedding model not initialized"), or collection.add raises
AddToVectorDbRaises(emb, batch) == ~emb \/ CollectionAddRaises(batch)

\* The collection after _add_to_vector_db(batch), whether or not it raised: the
\* collection is created before the batch is encoded and added
AddToVectorDb(coll, emb, batch) ==
    IF ~emb THEN coll
    ELSE IF CollectionAddRaises(batch) THEN [coll EXCEPT !.exists = TRUE]
    ELSE CollectionAdd(coll, batch)

NoFile == [state |-> "missing", bm |-> NoBM25, docs |-> <<>>]

\* pickle.dump(self.bm25), pickle.dump(self.documents)
SaveIndex(bm, docs) ==
    [index_file |-> [state |-> "ok", bm |-> bm, docs |-> <<>>],
     docs_file |-> [state |-> "ok", bm |-> NoBM25, docs |-> docs]]

\* _load_index: when both files exist, self.bm25 and self.documents are replaced
\* by what the files hold, or by None and [] when pickle.load raises; otherwise
\* they stay as they are
LoadIndex(files, bm, docs) ==
    IF files.index_file.state = "missing" \/ files.docs_file.state = "missing"
    THEN [bm |-> bm, docs |-> docs]
    ELSE IF files.index_file.state = "corrupt" \/ files.docs_file.state = "corrupt"
    THEN [bm |-> NoBM25, docs |-> <<>>]
    ELSE [bm |-> files.index_file.bm, docs |-> files.docs_file.docs]

\* The store a complete add_documents(batch) call leaves
AddResult(docs, bm, coll, emb, batch) ==
    [docs |-> docs \o batch,
     bm |-> BuildBM25(docs \o batch),
     coll |-> AddToVectorDb(coll, emb, batch)]

----------------------------------------------------------------------------
(* The language-model client: ChatRLLMClient.generate_response.  A text is  *)
(* a sequence of tokens [tok, value]: a word of prose, a bracket, a JSON    *)
(* value, a code block.                                                    *)

\* A dict of a parsed JSON array: the keys it holds and their values (a key it
\* does not hold has an empty value); dict is FALSE for a value that is no dict
NoObject == [dict |-> FALSE, keys |-> {}, question |-> <<>>, type |-> "", priority |-> 0]

SubQuestion(question, type, priority) ==
    [dict |-> TRUE, keys |-> {"question", "type", "priority"},
     question |-> question, type |-> type, priority |-> priority]

Word(w) == [tok |-> "word", value |-> NoObject, text |-> w, lines |-> <<>>, block |-> 0]
Open == [tok |-> "[", value |-> NoObject, text |-> "[", lines |-> <<>>, block |-> 0]
Close == [tok |-> "]", value |-> NoObject, text |-> "]", lines |-> <<>>, block |-> 0]
Json(value) == [tok |-> "value", value |-> value, text |-> "", lines |-> <<>>, block |-> 0]

\* f"Sorry, I encountered an error: {e}"
ErrorString(e) == <<Word("Sorry, I encountered an error:")>> \o e

\* generate_response(prompt, execute_code = False): what client.chat returned,
\* or the error string when it raised
GenerateResponse(chat) == IF chat.failed THEN ErrorString(chat.text) ELSE chat.text

----------------------------------------------------------------------------
(* QueryDecomposer *)

\* str.lower(), word by word
Lower(w) == IF w = "Plot" THEN "plot" ELSE IF w = "Mean" THEN "mean" ELSE w

LowerAll(words) == [i \in 1..Len(words) |-> Lower(words[i])]

\* phrase in text, both as sequences of words
Contains(words, phrase) ==
    \E i \in 1..(Len(words) - Len(phrase) + 1) : SubSeq(words, i, i + Len(phrase) - 1) = phrase

\* The three keyword rules of _fallback_decomposition
RegressionRule(query_lower) ==
    Contains(query_lower, <<"linear", "regression">>) \/ Contains(query_lower, <<"lm(">>)

PlotRule(query_lower) ==
    Contains(query_lower, <<"plot">>) \/ Contains(query_lower, <<"visualization">>)

DataRule(query_lower) ==
    /\ Contains(query_lower, <<"data">>)
    /\ \E word \in {"import", "read", "load"} : Contains(query_lower, <<word>>)

RegressionQuestions ==
    << SubQuestion(<<"How to perform linear regression in R?">>, "function", 1),
       SubQuestion(<<"What packages are needed for linear regression?">>, "package", 2),
       SubQuestion(<<"How to check linear regression assumptions?">>, "concept", 2) >>

PlotQuestions ==
    << SubQuestion(<<"How to create plots in R?">>, "function", 1),
       SubQuestion(<<"What visualization packages are available?">>, "package", 2) >>

DataQuestions ==
    << SubQuestion(<<"How to read data in R?">>, "function", 1),
       SubQuestion(<<"What data import packages are available?">>, "package", 2) >>

\* _fallback_decomposition with the general question built from query_lower
FallbackDecomposition_m(user_query) ==
    LET query_lower == LowerAll(user_query)
        matched == (IF RegressionRule(query_lower) THEN RegressionQuestions ELSE <<>>)
                   \o (IF PlotRule(query_lower) THEN PlotQuestions ELSE <<>>)
                   \o (IF DataRule(query_lower) THEN DataQuestions ELSE <<>>)
    IN  IF matched = <<>> THEN <<SubQuestion(query_lower, "general", 1)>> ELSE matched

\* _fallback_decomposition(user_query)
FallbackDecomposition(user_query) ==
    LET query_lower == LowerAll(user_query)
        matched == (IF RegressionRule(query_lower) THEN RegressionQuestions ELSE <<>>)
                   \o (IF PlotRule(query_lower) THEN PlotQuestions ELSE <<>>)
                   \o (IF DataRule(query_lower) THEN DataQuestions ELSE <<>>)
    IN  IF matched = <<>> THEN <<SubQuestion(user_query, "general", 1)>> ELSE matched

\* response.find('['): the first position of the bracket, 0 when there is none
Find(response, tok) ==
    IF \E i \in 1..Len(response) : response[i].tok = tok
    THEN CHOOSE i \in 1..Len(response) :
            response[i].tok = tok /\ \A j \in 1..(i - 1) : response[j].tok # tok
    ELSE 0

\* response.rfind(']'): the last position of the bracket, 0 when there is none
RFind(response, tok) ==
    IF \E i \in 1..Len(response) : response[i].tok = tok
    THEN CHOOSE i \in 1..Len(response) :
            response[i].tok = tok /\ \A j \in (i + 1)..Len(response) : response[j].tok # tok
    ELSE 0

\* response[start_idx:end_idx], from the first '[' to the last ']'
JsonStr(response) == SubSeq(response, Find(response, "["), RFind(response, "]"))

\* json.loads(json_str) raises unless the text is one array of JSON values
JsonLoadsRaises(json_str) ==
    \/ Len(json_str) < 2
    \/ json_str[1].tok # "[" \/ json_str[Len(json_str)].tok # "]"
    \/ \E i \in 2..(Len(json_str) - 1) : json_str[i].tok # "value"

JsonLoads(json_str) == [i \in 1..(Len(json_str) - 2) |-> json_str[i + 1].value]

\* x.get('priority', 3)
PriorityKey(x) == IF "priority" \in x.keys THEN x.priority ELSE 3

\* list.sort(key = priority): stable, ascending
RECURSIVE InsertAsc(_, _)
InsertAsc(sorted, x) ==
    IF sorted = <<>> THEN <<x>>
    ELSE IF PriorityKey(Head(sorted)) <= PriorityKey(x)
         THEN <<Head(sorted)>> \o InsertAsc(Tail(sorted), x)
         ELSE <<x>> \o sorted

RECURSIVE SortByPriority(_)
SortByPriority(items) ==
    IF items = <<>> THEN <<>>
    ELSE InsertAsc(SortByPriority(SubSeq(items, 1, Len(items) - 1)), items[Len(items)])

\* x.get raises AttributeError on a value that is no dict
SortRaises(items) == \E i \in 1..Len(items) : ~items[i].dict

\* decompose_query(user_query), given what client.chat does: the sub-questions
\* and the path that produced them
DecomposeQuery(user_query, chat) ==
    LET response == GenerateResponse(chat)
        json_str == JsonStr(response)
    IN  IF Find(response, "[") = 0
        THEN [path |-> "fallback", sub_questions |-> FallbackDecomposition(user_query)]
        ELSE IF JsonLoadsRaises(json_str) \/ SortRaises(JsonLoads(json_str))
        THEN [path |-> "fallback", sub_questions |-> FallbackDecomposition(user_query)]
        ELSE [path |-> "model", sub_questions |-> SortByPriority(JsonLoads(json_str))]

----------------------------------------------------------------------------
(* MultiHopRetriever.  A retrieved pair is [doc, score], the document with *)
(* its metadata: the keys it holds and their values.                       *)

\* doc.metadata.get(key, '')
MetaGet(doc, key) == IF key \in doc.metadata.keys THEN doc.metadata[key] ELSE ""

\* A context tag f"{kind}:{name}"
Tag(kind, name) == [kind |-> kind, name |-> name]

\* word in ctx.lower()
TagContains(ctx, word) == ctx.kind = word \/ Lower(ctx.name) = word

\* The tags one result contributes: package, function, task, those its metadata holds
TagsOf(doc) ==
    (IF "package" \in doc.metadata.keys THEN <<Tag("package", doc.metadata.package)>> ELSE <<>>)
    \o (IF "function" \in doc.metadata.keys THEN <<Tag("function", doc.metadata.function)>> ELSE <<>>)
    \o (IF "task" \in doc.metadata.keys THEN <<Tag("task", doc.metadata.task)>> ELSE <<>>)

\* _extract_context_info(results): the tags of results[:2]
RECURSIVE TagsOfAll(_)
TagsOfAll(results) ==
    IF results = <<>> THEN <<>> ELSE TagsOf(Head(results).doc) \o TagsOfAll(Tail(results))

ExtractContextInfo(results) == TagsOfAll(PySlice(results, 2))

\* context[-3:]
LastThree(context) == SubSeq(context, Max2(Len(context) - 2, 1), Len(context))

\* The test of _enhance_query_with_context on one tag
Relevant(ctx, question_type) ==
    \/ question_type = "package" /\ (TagContains(ctx, "package") \/ TagContains(ctx, "library"))
    \/ question_type = "function" /\ (TagContains(ctx, "function") \/ TagContains(ctx, "method"))
    \/ question_type = "concept"

\* _enhance_query_with_context without the test of an empty context, and with
\* a hint made of the question type
EnhanceQueryWithContext_m(question, context, question_type) ==
    LET relevant_context == SelectSeq(LastThree(context), LAMBDA ctx : Relevant(ctx, question_type))
    IN  [question |-> question,
         considering |-> relevant_context \o <<Tag("type", question_type)>>]

\* _enhance_query_with_context: f"{question} (considering: {', '.join(relevant_context)})",
\* or the question itself (considering nothing)
EnhanceQueryWithContext(question, context, question_type) ==
    LET relevant_context == SelectSeq(LastThree(context), LAMBDA ctx : Relevant(ctx, question_type))
    IN  [question |-> question,
         considering |-> IF context = <<>> THEN <<>> ELSE relevant_context]

\* type_bonus of _targeted_retrieve, x10000 as the scores
TypeBonus(question_type, doc) ==
    LET doc_type == MetaGet(doc, "type")
        doc_task == MetaGet(doc, "task")
    IN  (IF question_type = "package" /\ doc_type \in {"package_description", "task_view"} THEN 2000
         ELSE IF question_type = "function" /\ doc_type \in {"man_page", "function"} THEN 2000
         ELSE IF question_type = "concept" /\ doc_type \in {"vignette", "r_extensions"} THEN 1500
         ELSE IF question_type = "example" /\ doc_type \in {"vignette", "man_page"} THEN 1000
         ELSE 0)
        + (IF question_type \in {"function", "concept"}
                /\ doc_task \in {"statistical_modeling", "data_visualization"} THEN 1000
           ELSE 0)

\* top_k = max_docs * 2
CandidatesAsked(max_docs) == max_docs * 2

\* _targeted_retrieve that cuts the adjusted list without sorting it again
TargetedRetrieve_m(results, question_type, max_docs) ==
    LET filtered_results == [i \in 1..Len(results) |->
            [doc |-> results[i].doc,
             score |-> results[i].score + TypeBonus(question_type, results[i].doc)]]
    IN  PySlice(filtered_results, max_docs)

\* _targeted_retrieve, given what retriever.retrieve(query, top_k = max_docs * 2)
\* returned: adjusted scores, sorted (stable, descending), cut to max_docs
TargetedRetrieve(results, question_type, max_docs) ==
    LET filtered_results == [i \in 1..Len(results) |->
            [doc |-> results[i].doc,
             score |-> results[i].score + TypeBonus(question_type, results[i].doc)]]
    IN  PySlice(SortedDesc(filtered_results), max_docs)

\* sub_q['question'], sub_q['type'] raise KeyError on a dict without the key
HopKeyError(sub_q) == ~({"question", "type"} \subseteq sub_q.keys)

\* retrieval_results[question] = results: a dict in insertion order, an
\* assignment to a key it holds replaces the value in place
DictSet(dict, key, value) ==
    IF \E i \in 1..Len(dict) : dict[i].key = key
    THEN [i \in 1..Len(dict) |-> IF dict[i].key = key THEN [key |-> key, value |-> value] ELSE dict[i]]
    ELSE Append(dict, [key |-> key, value |-> value])

----------------------------------------------------------------------------
(* WorkflowOrchestrator: _synthesize_workflow and _validate_workflow *)

\* A fenced r code block of a text: its lines, each a sequence of words
Code(lines) == [tok |-> "code", value |-> NoObject, text |-> "", lines |-> lines, block |-> 0]

\* What _process_r_code_blocks inserts after a code block
Execution == [tok |-> "execution", value |-> NoObject, text |-> "", lines |-> <<>>, block |-> 0]

\* f"Code block {i+1}: {validation_result}"
Note(block, validation_result) ==
    [tok |-> "note", value |-> NoObject, text |-> validation_result, lines |-> <<>>, block |-> block]

\* _process_r_code_blocks(text): every code block is followed by its execution result
RECURSIVE ProcessRCodeBlocks(_)
ProcessRCodeBlocks(text) ==
    IF text = <<>> THEN <<>>
    ELSE (IF Head(text).tok = "code" THEN <<Head(text), Execution>> ELSE <<Head(text)>>)
         \o ProcessRCodeBlocks(Tail(text))

\* generate_response(prompt, context_docs, execute_code = True)
GenerateResponseExec(chat) ==
    IF chat.failed THEN ErrorString(chat.text) ELSE ProcessRCodeBlocks(chat.text)

\* all_context: doc.content of results[:3] of every question, in the order of the dict
RECURSIVE AllContext(_)
AllContext(retrieval) ==
    IF retrieval = <<>> THEN <<>>
    ELSE LET top == PySlice(Head(retrieval).value, 3)
         IN  [i \in 1..Len(top) |-> top[i].doc.content] \o AllContext(Tail(retrieval))

\* all_context[:10], the documents of the synthesis prompt
PromptDocs(all_context) == PySlice(all_context, 10)

\* context_docs = all_context[:5]
ContextDocs(all_context) == PySlice(all_context, 5)

\* _format_sub_questions: sq['question'], sq['type'], sq['priority'] raise
\* KeyError on a dict without the key
FormatKeyError(questions) ==
    \E i \in 1..Len(questions) : ~({"question", "type", "priority"} \subseteq questions[i].keys)

\* code_block.strip().split('\n'): the lines without the blank ones at both ends
RECURSIVE StripLines(_)
StripLines(lines) ==
    IF lines = <<>> THEN <<>>
    ELSE IF Head(lines) = <<>> THEN StripLines(Tail(lines))
    ELSE IF lines[Len(lines)] = <<>> THEN StripLines(SubSeq(lines, 1, Len(lines) - 1))
    ELSE lines

\* pattern in code_lower
CodeHas(lines, pattern) == \E i \in 1..Len(lines) : Contains(LowerAll(lines[i]), <<pattern>>)

\* _validate_code_block(code): the issue found, "" for None
ValidateCodeBlock(lines) ==
    IF CodeHas(lines, "library(") /\ ~CodeHas(lines, "install.packages(") /\ CodeHas(lines, "obscurepackage")
    THEN "Package 'obscurepackage' may not be widely available"
    ELSE IF CodeHas(lines, "library(") /\ ~CodeHas(lines, "install.packages(") /\ CodeHas(lines, "rarepkg")
    THEN "Package 'rarepkg' may not be widely available"
    ELSE IF CodeHas(lines, "system(") THEN "Contains potentially dangerous operation: system("
    ELSE IF CodeHas(lines, "unlink(") THEN "Contains potentially dangerous operation: unlink("
    ELSE IF CodeHas(lines, "file.remove(") THEN "Contains potentially dangerous operation: file.remove("
    ELSE ""

\* re.findall(r'```r\n(.*?)\n```', workflow_response): the code blocks, in order
CodeBlocks(workflow_response) == SelectSeq(workflow_response, LAMBDA t : t.tok = "code")

\* validation_notes: blocks of fewer than 2 lines are skipped
RECURSIVE ValidationNotes(_, _)
ValidationNotes(code_blocks, i) ==
    IF i > Len(code_blocks) THEN <<>>
    ELSE (IF Len(StripLines(code_blocks[i].lines)) >= 2 /\ ValidateCodeBlock(code_blocks[i].lines) # ""
          THEN <<Note(i, ValidateCodeBlock(code_blocks[i].lines))>> ELSE <<>>)
         \o ValidationNotes(code_blocks, i + 1)

\* _validate_workflow that drops the code blocks from the answer it annotates
ValidateWorkflow_m(workflow_response) ==
    LET validation_notes == ValidationNotes(CodeBlocks(workflow_response), 1)
    IN  IF validation_notes = <<>> THEN workflow_response
        ELSE SelectSeq(workflow_response, LAMBDA t : t.tok # "code")
             \o <<Word("**Validation Notes:**")>> \o validation_notes

\* _validate_workflow(workflow_response)
ValidateWorkflow(workflow_response) ==
    LET validation_notes == ValidationNotes(CodeBlocks(workflow_response), 1)
    IN  IF validation_notes = <<>> THEN workflow_response
        ELSE workflow_response \o <<Word("**Validation Notes:**")>> \o validation_notes

----------------------------------------------------------------------------
(* History kept for the properties *)

\* No retrieve call: the value of last before the first call and after the store changed
NoCall == [op |-> "none", query |-> <<>>, top_k |-> 0, bm25_weight |-> 0,
           raised |-> FALSE, result |-> <<>>,
           docs |-> <<>>, bm |-> NoBM25, coll |-> NoCollection, emb |-> FALSE,
           seed |-> <<>>, during |-> "idle"]

\* No add_documents call: the value of addHist when the previous operation was another
NoAdd == [batch |-> <<>>, twice |-> FALSE, raised |-> FALSE,
          docs |-> <<>>, bm |-> NoBM25, coll |-> NoCollection]

----------------------------------------------------------------------------
(* An orchestration run: WorkflowOrchestrator.process_complex_query, or a  *)
(* call of MultiHopRetriever.multi_hop_retrieve by itself                  *)

\* max_docs_per_question = 5
MaxDocsPerQuestion == 5

\* User queries, as words
UserQueries == { <<"Mean", "of", "x">>, <<"Plot", "data">>, <<"lm(", "plot">>, <<"read", "data">> }

QuestionA == <<"Which package fits models?">>
QuestionB == <<"How to call lm()?">>
QuestionC == <<"Why check residuals?">>

\* What client.chat does for the decomposition prompt: it raises (text is the
\* message of the exception) or returns a text
DecomposeChats ==
    { [failed |-> TRUE, text |-> <<Open, Word("Errno 111"), Close, Word("Connection refused")>>],
      [failed |-> FALSE, text |-> <<Word("I cannot help with that.")>>],
      [failed |-> FALSE, text |-> <<Open, Close>>],
      [failed |-> FALSE, text |-> <<Word("Sub-questions:"), Open,
                                    Json(SubQuestion(QuestionC, "concept", 2)),
                                    Json(SubQuestion(QuestionB, "function", 1)),
                                    Json(SubQuestion(QuestionA, "package", 1)), Close>>],
      [failed |-> FALSE, text |-> <<Open, Json(SubQuestion(QuestionB, "function", 1)), Close,
                                    Word("or"), Open, Json(SubQuestion(QuestionA, "package", 1)), Close>>],
      [failed |-> FALSE, text |-> <<Open, Json([SubQuestion(<<>>, "function", 1) EXCEPT !.keys = {"type", "priority"}]),
                                    Close>>],
      [failed |-> FALSE, text |-> <<Open, Json([SubQuestion(QuestionA, "package", 0) EXCEPT !.keys = {"question", "type"}]),
                                    Close>>],
      [failed |-> FALSE, text |-> <<Open, Json(SubQuestion(QuestionB, "function", 1)),
                                    Json(SubQuestion(QuestionB, "function", 2)), Close>>],
      [failed |-> FALSE, text |-> <<Open, Json(NoObject), Close>>] }

\* The sub-question lists multi_hop_retrieve is called with directly
HopLists ==
    { << SubQuestion(QuestionC, "concept", 2), SubQuestion(QuestionA, "package", 1),
         SubQuestion(QuestionB, "function", 3) >> }

NoMetadata == [keys |-> {}, type |-> "", task |-> "", package |-> "", function |-> ""]

DocLm ==
    [id |-> "stats::lm", content |-> "lm fits linear models",
     metadata |-> [keys |-> {"type", "package", "function"}, type |-> "man_page", task |-> "",
                   package |-> "stats", function |-> "lm"]]

DocPlot ==
    [id |-> "graphics", content |-> "plotting with base graphics",
     metadata |-> [keys |-> {"type", "task"}, type |-> "vignette", task |-> "data_visualization",
                   package |-> "", function |-> ""]]

DocNote == [id |-> "note", content |-> "a note", metadata |-> NoMetadata]

DocLibrary ==
    [id |-> "base::library", content |-> "library attaches a package",
     metadata |-> [keys |-> {"type", "package", "function"}, type |-> "man_page", task |-> "",
                   package |-> "base", function |-> "library"]]

\* What retriever.retrieve(query, top_k) does for a hop: it raises, or returns
\* a ranked list of (document, score) pairs, at most top_k of them
RetrieverOutcomes ==
    { [raised |-> TRUE, results |-> <<>>],
      [raised |-> FALSE, results |-> <<>>],
      [raised |-> FALSE, results |-> <<[doc |-> DocNote, score |-> 7000], [doc |-> DocLm, score |-> 6000]>>],
      [raised |-> FALSE, results |-> <<[doc |-> DocLibrary, score |-> 8000], [doc |-> DocPlot, score |-> 5000],
                                       [doc |-> DocLm, score |-> 4000], [doc |-> DocNote, score |-> 3000]>>] }

\* What client.chat does for the synthesis prompt
SynthesizeChats ==
    { [failed |-> TRUE, text |-> <<Word("timed out")>>],
      [failed |-> FALSE, text |-> <<Word("Use lm().")>>],
      [failed |-> FALSE, text |-> <<Word("Run:"),
                                    Code(<< <<"x", "<-", "1">>, <<"system(", "'ls')">> >>)>>],
      [failed |-> FALSE, text |-> <<Word("Clean up:"), Code(<< <<"unlink(", "'data')">> >>)>>] }

\* No run: nothing was called yet
NoRun == [entry |-> "none", stages |-> <<>>, path |-> "none", response |-> <<>>,
          hops |-> <<>>, error |-> "none", failed_hop |-> 0,
          synthesize_failed |-> FALSE, all_context |-> <<>>, prompt_docs |-> <<>>,
          context_docs |-> <<>>, synthesized |-> <<>>]

InitOrchestration ==
    /\ stage = "Idle"
    /\ complex_query = <<>>
    /\ sub_questions = <<>>
    /\ max_docs_per_question = MaxDocsPerQuestion
    /\ hop = 0
    /\ retrieval_results = <<>>
    /\ context_from_previous = <<>>
    /\ final_response = <<>>
    /\ run = NoRun

----------------------------------------------------------------------------
(* The retriever, one call at a time *)

Init ==
    /\ documents = <<>>
    /\ bm25 = NoBM25
    /\ embedding_model \in BOOLEAN
    /\ collection = NoCollection
    /\ disk = [index_file |-> NoFile, docs_file |-> NoFile]
    /\ hashSeed \in HashOrders
    /\ last = NoCall
    /\ addHist = NoAdd
    /\ wpc = "idle"
    /\ pending = <<>>
    /\ InitOrchestration

\* add_documents(batch), from the first line to the return or the exception
AddDocuments(batch) ==
    /\ wpc = "idle"
    /\ Len(documents) + Len(batch) <= MaxDocs
    /\ LET after == AddResult(documents, bm25, collection, embedding_model, batch)
       IN  /\ documents' = after.docs
           /\ bm25' = after.bm
           /\ collection' = after.coll
           /\ disk' = IF AddToVectorDbRaises(embedding_model, batch) THEN disk
                      ELSE SaveIndex(after.bm, after.docs)
    /\ addHist' = [batch |-> batch, twice |-> addHist.batch = batch,
                   raised |-> AddToVectorDbRaises(embedding_model, batch),
                   docs |-> documents, bm |-> bm25, coll |-> collection]
    /\ last' = NoCall
    /\ UNCHANGED <<embedding_model, hashSeed, wpc, pending>>
    /\ UNCHANGED orchestration

\* retrieve(query, top_k, bm25_weight)
Retrieve(query, top_k, bm25_weight) ==
    /\ LET call == RetrieveCall(documents, bm25, collection, embedding_model,
                                hashSeed, query, top_k, bm25_weight)
       IN  last' = [op |-> "retrieve", query |-> query, top_k |-> top_k,
                    bm25_weight |-> bm25_weight,
                    raised |-> call.raised, result |-> call.result,
                    docs |-> documents, bm |-> bm25, coll |-> collection,
                    emb |-> embedding_model, seed |-> hashSeed, during |-> wpc]
    /\ addHist' = IF wpc = "idle" THEN NoAdd ELSE addHist
    /\ UNCHANGED <<documents, bm25, embedding_model, collection, disk, hashSeed,
                   wpc, pending>>
    /\ UNCHANGED orchestration

\* initialize() on the live object: SentenceTransformer(...) is assigned when one
\* of the models loads (when none does the attribute keeps its value), then
\* _load_index()
Initialize(loaded) ==
    /\ wpc = "idle"
    /\ embedding_model' = (loaded \/ embedding_model)
    /\ documents' = LoadIndex(disk, bm25, documents).docs
    /\ bm25' = LoadIndex(disk, bm25, documents).bm
    /\ addHist' = NoAdd
    /\ last' = IF <<documents', bm25', embedding_model'>> = <<documents, bm25, embedding_model>>
               THEN last ELSE NoCall
    /\ UNCHANGED <<collection, disk, hashSeed, wpc, pending>>
    /\ UNCHANGED orchestration

\* A new process: __init__ (no index, no documents, no model, a new hash seed)
\* and initialize()
Restart(loaded, seed) ==
    /\ wpc = "idle"
    /\ embedding_model' = loaded
    /\ hashSeed' = seed
    /\ documents' = LoadIndex(disk, NoBM25, <<>>).docs
    /\ bm25' = LoadIndex(disk, NoBM25, <<>>).bm
    /\ addHist' = NoAdd
    /\ last' = IF <<documents', bm25', embedding_model'>> = <<documents, bm25, embedding_model>>
               THEN last ELSE NoCall
    /\ UNCHANGED <<collection, disk, wpc, pending>>
    /\ UNCHANGED orchestration

Next ==
    \/ \E batch \in Batches : AddDocuments(batch)
    \/ \E query \in Queries, top_k \in TopKs, bm25_weight \in Weights :
            Retrieve(query, top_k, bm25_weight)
    \/ \E loaded \in BOOLEAN : Initialize(loaded)
    \/ \E loaded \in BOOLEAN, seed \in HashOrders : Restart(loaded, seed)

Spec == Init /\ [][Next]_vars

----------------------------------------------------------------------------
(* Restore after a fault of the disk: a pickle file of the index directory *)
(* is lost or damaged between two processes                                *)

IndexFiles == {"index_file", "docs_file"}

FileFaults == {"missing", "corrupt"}

\* bm25_index.pkl or documents.pkl is deleted, or no longer unpickles
DiskFault(file, fault) ==
    /\ wpc = "idle"
    /\ disk[file].state = "ok"
    /\ disk' = [disk EXCEPT ![file].state = fault]
    /\ UNCHANGED <<documents, bm25, embedding_model, collection, hashSeed, last,
                   addHist, wpc, pending>>
    /\ UNCHANGED orchestration

NextRestore ==
    \/ \E batch \in Batches : AddDocuments(batch)
    \/ \E file \in IndexFiles, fault \in FileFaults : DiskFault(file, fault)
    \/ \E loaded \in BOOLEAN, seed \in HashOrders : Restart(loaded, seed)

SpecRestore == Init /\ [][NextRestore]_vars

----------------------------------------------------------------------------
(* retrieve with the queries that give a pass every kind of score list: no  *)
(* word (all scores zero), one word, two words                             *)

PassQueries == Queries \cup { <<>>, <<"a", " ", "b">> }

NextPasses ==
    \/ \E batch \in Batches : AddDocuments(batch)
    \/ \E query \in PassQueries, bm25_weight \in Weights : Retrieve(query, MaxTopK, bm25_weight)

SpecPasses == Init /\ [][NextPasses]_vars

----------------------------------------------------------------------------
(* A reader thread beside an add_documents call: the class takes no lock,  *)
(* so a retrieve call may run between any two statements of add_documents  *)

\* self.documents.extend(documents)
AddExtend(batch) ==
    /\ wpc = "idle"
    /\ Len(documents) + Len(batch) <= MaxDocs
    /\ documents' = documents \o batch
    /\ wpc' = "extended"
    /\ pending' = batch
    /\ addHist' = [batch |-> batch, twice |-> FALSE, raised |-> FALSE,
                   docs |-> documents, bm |-> bm25, coll |-> collection]
    /\ last' = NoCall
    /\ UNCHANGED <<bm25, embedding_model, collection, disk, hashSeed>>
    /\ UNCHANGED orchestration

\* self.bm25 = BM25Okapi(tokenized_texts)
AddBuildIndex ==
    /\ wpc = "extended"
    /\ bm25' = BuildBM25(documents)
    /\ wpc' = "indexed"
    /\ UNCHANGED <<documents, embedding_model, collection, disk, hashSeed, last,
                   addHist, pending>>
    /\ UNCHANGED orchestration

\* self._add_to_vector_db(documents); an exception ends the call
AddVectors ==
    /\ wpc = "indexed"
    /\ collection' = AddToVectorDb(collection, embedding_model, pending)
    /\ wpc' = IF AddToVectorDbRaises(embedding_model, pending) THEN "idle" ELSE "embedded"
    /\ pending' = IF AddToVectorDbRaises(embedding_model, pending) THEN <<>> ELSE pending
    /\ addHist' = [addHist EXCEPT !.raised = AddToVectorDbRaises(embedding_model, pending)]
    /\ UNCHANGED <<documents, bm25, embedding_model, disk, hashSeed, last>>
    /\ UNCHANGED orchestration

\* self._save_index()
AddSave ==
    /\ wpc = "embedded"
    /\ disk' = SaveIndex(bm25, documents)
    /\ wpc' = "idle"
    /\ pending' = <<>>
    /\ UNCHANGED <<documents, bm25, embedding_model, collection, hashSeed, last, addHist>>
    /\ UNCHANGED orchestration

NextConcurrent ==
    \/ \E batch \in Batches : AddExtend(batch)
    \/ AddBuildIndex
    \/ AddVectors
    \/ AddSave
    \/ \E query \in Queries : Retrieve(query, 1, 3)

SpecConcurrent == Init /\ [][NextConcurrent]_vars

----------------------------------------------------------------------------
(* The orchestration run, stage by stage and hop by hop *)

\* process_complex_query(user_query) is called
ProcessComplexQuery(query) ==
    /\ stage = "Idle"
    /\ stage' = "Decompose"
    /\ complex_query' = query
    /\ run' = [run EXCEPT !.entry = "query"]
    /\ UNCHANGED <<sub_questions, max_docs_per_question, hop, retrieval_results,
                   context_from_previous, final_response>>
    /\ UNCHANGED retriever

\* Step 1: sub_questions = self.query_decomposer.decompose_query(user_query)
Decompose(chat) ==
    /\ stage = "Decompose"
    /\ LET decomposed == DecomposeQuery(complex_query, chat)
       IN  /\ sub_questions' = decomposed.sub_questions
           /\ run' = [run EXCEPT !.stages = Append(@, "Decompose"), !.path = decomposed.path,
                                 !.response = GenerateResponse(chat)]
    /\ stage' = "Retrieve"
    /\ UNCHANGED <<complex_query, max_docs_per_question, hop, retrieval_results,
                   context_from_previous, final_response>>
    /\ UNCHANGED retriever

\* multi_hop_retrieve(sub_questions, max_docs_per_question) is called by itself
MultiHopRetrieve(questions, max_docs) ==
    /\ stage = "Idle"
    /\ stage' = "Retrieve"
    /\ sub_questions' = questions
    /\ max_docs_per_question' = max_docs
    /\ run' = [run EXCEPT !.entry = "hops"]
    /\ UNCHANGED <<complex_query, hop, retrieval_results, context_from_previous, final_response>>
    /\ UNCHANGED retriever

\* One pass of the loop of multi_hop_retrieve, for sub_questions[hop + 1]; an
\* exception of the retriever, or the KeyError of a sub-question without its
\* keys, leaves multi_hop_retrieve and process_complex_query
Hop(outcome) ==
    /\ stage = "Retrieve"
    /\ hop < Len(sub_questions)
    /\ Len(outcome.results) <= CandidatesAsked(max_docs_per_question)
    /\ LET sub_q == sub_questions[hop + 1]
           enhanced_query == EnhanceQueryWithContext(sub_q.question, context_from_previous, sub_q.type)
           results == TargetedRetrieve(outcome.results, sub_q.type, max_docs_per_question)
           entry == [sub_q |-> sub_q, context |-> context_from_previous,
                     query |-> enhanced_query, raised |-> outcome.raised,
                     asked |-> CandidatesAsked(max_docs_per_question),
                     candidates |-> outcome.results,
                     results |-> IF outcome.raised THEN <<>> ELSE results]
       IN  IF HopKeyError(sub_q)
           THEN /\ stage' = "Raised"
                /\ run' = [run EXCEPT !.error = "KeyError"]
                /\ UNCHANGED <<hop, retrieval_results, context_from_previous>>
           ELSE IF outcome.raised
           THEN /\ stage' = "Raised"
                /\ run' = [run EXCEPT !.error = "retriever", !.failed_hop = hop + 1,
                                      !.hops = Append(@, entry)]
                /\ UNCHANGED <<hop, retrieval_results, context_from_previous>>
           ELSE /\ stage' = "Retrieve"
                /\ hop' = hop + 1
                /\ retrieval_results' = DictSet(retrieval_results, sub_q.question, results)
                /\ context_from_previous' =
                        context_from_previous \o (IF results # <<>> THEN ExtractContextInfo(results) ELSE <<>>)
                /\ run' = [run EXCEPT !.hops = Append(@, entry)]
    /\ UNCHANGED <<complex_query, sub_questions, max_docs_per_question, final_response>>
    /\ UNCHANGED retriever

\* return retrieval_results, to process_complex_query or to the caller
MultiHopReturn ==
    /\ stage = "Retrieve"
    /\ hop = Len(sub_questions)
    /\ stage' = IF run.entry = "query" THEN "Synthesize" ELSE "Returned"
    /\ run' = [run EXCEPT !.stages = Append(@, "Retrieve")]
    /\ UNCHANGED <<complex_query, sub_questions, max_docs_per_question, hop, retrieval_results,
                   context_from_previous, final_response>>
    /\ UNCHANGED retriever

\* Step 3: final_response = self._synthesize_workflow(...); the KeyError of
\* _format_sub_questions leaves process_complex_query
Synthesize(chat) ==
    /\ stage = "Synthesize"
    /\ IF FormatKeyError(sub_questions)
       THEN /\ stage' = "Raised"
            /\ run' = [run EXCEPT !.error = "KeyError"]
            /\ UNCHANGED final_response
       ELSE /\ final_response' = GenerateResponseExec(chat)
            /\ stage' = "Validate"
            /\ run' = [run EXCEPT !.stages = Append(@, "Synthesize"), !.synthesize_failed = chat.failed,
                                  !.all_context = AllContext(retrieval_results),
                                  !.prompt_docs = PromptDocs(AllContext(retrieval_results)),
                                  !.context_docs = ContextDocs(AllContext(retrieval_results)),
                                  !.synthesized = GenerateResponseExec(chat)]
    /\ UNCHANGED <<complex_query, sub_questions, max_docs_per_question, hop, retrieval_results,
                   context_from_previous>>
    /\ UNCHANGED retriever

\* Step 4: validated_response = self._validate_workflow(final_response); return
Validate ==
    /\ stage = "Validate"
    /\ final_response' = ValidateWorkflow(final_response)
    /\ stage' = "Done"
    /\ run' = [run EXCEPT !.stages = Append(@, "Validate")]
    /\ UNCHANGED <<complex_query, sub_questions, max_docs_per_question, hop, retrieval_results,
                   context_from_previous>>
    /\ UNCHANGED retriever

NextOrchestrator ==
    \/ \E query \in UserQueries : ProcessComplexQuery(query)
    \/ \E chat \in DecomposeChats : Decompose(chat)
    \/ \E questions \in HopLists, max_docs \in {1, MaxDocsPerQuestion} : MultiHopRetrieve(questions, max_docs)
    \/ \E outcome \in RetrieverOutcomes : Hop(outcome)
    \/ MultiHopReturn
    \/ \E chat \in SynthesizeChats : Synthesize(chat)
    \/ Validate

SpecOrchestrator == Init /\ [][NextOrchestrator]_vars

----------------------------------------------------------------------------
(* Properties *)

\* The corpus with, of the documents of one id, only the last appended, and the
\* two indices built from that corpus alone
LaterOnly(docs) ==
    SelectSeq([i \in 1..Len(docs) |-> [doc |-> docs[i], keep |-> \A j \in (i + 1)..Len(docs) : docs[j].id # docs[i].id]],
              LAMBDA e : e.keep)

LaterDocs(docs) == [i \in 1..Len(LaterOnly(docs)) |-> LaterOnly(docs)[i].doc]

\* C1: idempotent ingestion. When add_documents(B) has just been called twice in a
\* row and returned both times, no document id occurs twice in the corpus, and
\* every retrieve call returns what it would have returned after the first of the
\* two calls.
C1_IdempotentIngestion ==
    (addHist.twice /\ ~addHist.raised) =>
        /\ ~HasDuplicateIds(documents)
        /\ \A query \in Queries, top_k \in TopKs, bm25_weight \in Weights :
              RetrieveCall(documents, bm25, collection, embedding_model, hashSeed,
                           query, top_k, bm25_weight)
            = RetrieveCall(addHist.docs, addHist.bm, addHist.coll, embedding_model, hashSeed,
                           query, top_k, bm25_weight)

\* C2: last write wins. When documents of the corpus share an id (and every id of
\* the corpus reached the vector collection), a retrieve call returns what it
\* would return from a store that holds, of each id, only the document appended
\* last: that document's content, and lexical and vector scores computed from it.
C2_LastWriteWins ==
    (/\ last.op = "retrieve"
     /\ HasDuplicateIds(last.docs)
     /\ CorpusIds(last.docs) \subseteq CollectionIds(last.coll)
     /\ ~Uninitialized(last.bm, last.emb)) =>
        LET later == LaterDocs(last.docs)
            asIf == RetrieveCall(later, BuildBM25(later), CollectionAdd(NoCollection, later),
                                 last.emb, last.seed, last.query, last.top_k, last.bm25_weight)
        IN  /\ last.raised = asIf.raised
            /\ last.result = asIf.result

\* C3: atomic index publication. A retrieve call that runs while an add_documents
\* call is in progress (in a process that loaded its embedding model) reads either
\* the store as it was before that call or the store as the complete call leaves it.
C3_AtomicPublication ==
    (last.op = "retrieve" /\ last.during # "idle" /\ last.emb) =>
        LET post == AddResult(addHist.docs, addHist.bm, addHist.coll, last.emb, addHist.batch)
        IN  \/ <<last.docs, last.bm, last.coll>> = <<addHist.docs, addHist.bm, addHist.coll>>
            \/ <<last.docs, last.bm, last.coll>> = <<post.docs, post.bm, post.coll>>

\* C4: index-entry invariant. When no add_documents call is in progress, every
\* document of the corpus has exactly one lexical entry (its own tokens, at its
\* position) and exactly one vector entry (under its id).
C4_IndexEntryInvariant ==
    wpc = "idle" =>
        \A i \in 1..Len(documents) :
            /\ bm25.built
            /\ Len(bm25.corpus) = Len(documents)
            /\ bm25.corpus[i] = Split(documents[i].content)
            /\ Cardinality({ j \in 1..Len(collection.entries) :
                                collection.entries[j].id = documents[i].id }) = 1

\* C5: retrieve on an uninitialized index. A retrieve call (with a positive
\* top_k) that finds the lexical index not built, the embedding model not loaded
\* or the vector collection not created returns the empty list and does not raise.
C5_UninitializedReturnsEmpty ==
    (/\ last.op = "retrieve" /\ last.top_k > 0
     /\ (~last.bm.built \/ ~last.emb \/ ~last.coll.exists)) =>
        /\ ~last.raised
        /\ last.result = <<>>

\* The lexical pass alone: the first top_k of its normalized results
LexicalOnly(docs, bm, query, top_k, bm25_weight) ==
    LET lexical == Normalize(BM25Retrieve(bm, query, top_k * 2))
        first == SubSeq(lexical, 1, Min2(top_k, Len(lexical)))
    IN  [i \in 1..Len(first) |->
            [doc |-> docs[first[i].idx], score |-> bm25_weight * first[i].score]]

\* The vector pass alone: the first top_k of its normalized results
VectorOnly(docs, coll, query, top_k, bm25_weight) ==
    LET dense == Normalize(DenseRetrieve(coll, query, top_k * 2))
        first == SubSeq(dense, 1, Min2(top_k, Len(dense)))
    IN  [i \in 1..Len(first) |->
            [doc |-> DocLookup(docs, first[i].id), score |-> (10 - bm25_weight) * first[i].score]]

\* A store whose indices are in step with a corpus of distinct ids
InStep(docs, bm, coll) ==
    /\ ~HasDuplicateIds(docs)
    /\ bm = BuildBM25(docs)
    /\ [i \in 1..Len(coll.entries) |-> coll.entries[i].id] = [i \in 1..Len(docs) |-> docs[i].id]

\* C6: with bm25_weight = 1 a retrieve call (on a store whose indices are in step
\* with a corpus of distinct ids) returns the documents of the lexical pass alone,
\* in its order and with its scores.
C6_WeightOneIsLexical ==
    (/\ last.op = "retrieve" /\ ~last.raised /\ last.bm25_weight = 10
     /\ ~Uninitialized(last.bm, last.emb)
     /\ InStep(last.docs, last.bm, last.coll)) =>
        last.result = LexicalOnly(last.docs, last.bm, last.query, last.top_k, 10)

\* C7: with bm25_weight = 0 a retrieve call (on a store whose indices are in step
\* with a corpus of distinct ids) returns the documents of the vector pass alone,
\* in its order and with its scores.
C7_WeightZeroIsVector ==
    (/\ last.op = "retrieve" /\ ~last.raised /\ last.bm25_weight = 0
     /\ ~Uninitialized(last.bm, last.emb)
     /\ InStep(last.docs, last.bm, last.coll)) =>
        last.result = VectorOnly(last.docs, last.coll, last.query, last.top_k, 0)

\* C8: determinism. Two successive retrieve calls with the same query, top_k and
\* bm25_weight that read the same corpus and indices with the same embedding
\* model return the same list, in the same order.
C8_DeterministicOrder ==
    [][(/\ last.op = "retrieve" /\ last'.op = "retrieve"
        /\ <<last'.query, last'.top_k, last'.bm25_weight>> = <<last.query, last.top_k, last.bm25_weight>>
        /\ <<last'.docs, last'.bm, last'.coll, last'.emb>> = <<last.docs, last.bm, last.coll, last.emb>>)
       => (last'.raised = last.raised /\ last'.result = last.result)]_vars

\* The two normalized passes a retrieve call fuses
LastLexical == Normalize(BM25Retrieve(last.bm, last.query, last.top_k * 2))

LastDense == Normalize(DenseRetrieve(last.coll, last.query, last.top_k * 2))

LastCandidates == AllDocIds(last.docs, LastLexical, LastDense)

\* bm25_weight * normalized lexical + (1 - bm25_weight) * normalized vector of an
\* id, a score the pass did not return counting as 0
Fused(id) ==
    last.bm25_weight * LexicalScore(last.docs, LastLexical, id)
        + (10 - last.bm25_weight) * DenseScore(LastDense, id)

FoundByOnePass(id) ==
    (LexicalHits(last.docs, LastLexical, id) = {}) # (DenseHits(LastDense, id) = {})

Returned(call) == call.op = "retrieve" /\ ~call.raised /\ ~Uninitialized(call.bm, call.emb)

\* C9: fusion arithmetic. Every pair a retrieve call returns carries the score
\* bm25_weight * lexical + (1 - bm25_weight) * vector of its document's id, a
\* score missing from a pass counting as 0; and a document of the corpus that
\* either pass found, were it by one pass only, is left out of the result only
\* when top_k candidates score at least as much.
C9_FusionArithmetic ==
    Returned(last) =>
        /\ \A i \in 1..Len(last.result) :
              /\ last.result[i].doc.id \in LastCandidates
              /\ last.result[i].score = Fused(last.result[i].doc.id)
        /\ \A id \in LastCandidates \cap CorpusIds(last.docs) :
              \/ \E i \in 1..Len(last.result) : last.result[i].doc.id = id
              \/ Cardinality({ other \in LastCandidates : Fused(other) >= Fused(id) }) >= last.top_k

\* C9, reached: a call with bm25_weight = 0.3 returned, with a positive score, a
\* document that only one of the two passes found.
C9_Witness ==
    /\ Returned(last) /\ last.bm25_weight = 3
    /\ \E i \in 1..Len(last.result) :
          /\ FoundByOnePass(last.result[i].doc.id)
          /\ last.result[i].score > 0

\* C10: result shape. The list a retrieve call with top_k >= 0 returns has at most top_k pairs,
\* and no pair has a higher score than the pair before it.
C10_ResultShape ==
    (last.op = "retrieve" /\ ~last.raised /\ last.top_k >= 0) =>
        /\ Len(last.result) <= last.top_k
        /\ \A i \in 1..(Len(last.result) - 1) : last.result[i].score >= last.result[i + 1].score

\* C10, reached: a call with top_k = 2 that had three candidates returned two
\* pairs of different scores.
C10_Witness ==
    /\ Returned(last) /\ last.top_k = 2
    /\ Cardinality(LastCandidates) = 3
    /\ Len(last.result) = 2
    /\ last.result[1].score > last.result[2].score

\* C11: invalid parameters are rejected. A retrieve call with a negative top_k
\* ends with an error reported to its caller.
C11_NegativeTopKRejected ==
    (last.op = "retrieve" /\ last.top_k < 0) => last.raised

\* decompose_query has returned in this run
Decomposed == run.path # "none"

\* C12: the list decompose_query returns is in ascending priority order, on
\* the model path and on the fallback path alike.
C12_SortedByPriority ==
    Decomposed =>
        \A i, j \in 1..Len(sub_questions) :
            i < j => sub_questions[i].priority <= sub_questions[j].priority

\* C13: decompose_query returns at least one sub-question for every non-empty
\* query, whatever the language model does.
C13_DecomposerTotal ==
    (Decomposed /\ complex_query # <<>>) => sub_questions # <<>>

\* A span of the response from a '[' to a ']' that holds a list of JSON objects
ListSpan(response, i, j) ==
    /\ i < j
    /\ response[i].tok = "[" /\ response[j].tok = "]"
    /\ \A k \in (i + 1)..(j - 1) : response[k].tok = "value" /\ response[k].value.dict

HasListSpan(response) ==
    \E i, j \in 1..Len(response) : ListSpan(response, i, j)

\* The objects of the first such span
FirstListSpan(response) ==
    LET i == CHOOSE a \in 1..Len(response) :
                /\ \E b \in 1..Len(response) : ListSpan(response, a, b)
                /\ \A c \in 1..(a - 1) : ~\E b \in 1..Len(response) : ListSpan(response, c, b)
        j == CHOOSE b \in 1..Len(response) : ListSpan(response, i, b)
    IN  [k \in 1..(j - i - 1) |-> response[i + k].value]

\* The same sub-questions, in any order
SameItems(s, t) ==
    /\ Len(s) = Len(t)
    /\ \A x \in {s[k] : k \in 1..Len(s)} \cup {t[k] : k \in 1..Len(t)} :
            Cardinality({k \in 1..Len(s) : s[k] = x}) = Cardinality({k \in 1..Len(t) : t[k] = x})

\* C14: a response without a well-formed list of sub-questions gives the
\* fallback decomposition of the query; a response with one gives the
\* sub-questions of the first such span.
C14_ParseFailureFallsBack ==
    Decomposed =>
        IF HasListSpan(run.response)
        THEN SameItems(sub_questions, FirstListSpan(run.response))
        ELSE run.path = "fallback" /\ sub_questions = FallbackDecomposition(complex_query)

\* A keyword rule of the fallback matches the query
RuleMatches(query) ==
    \/ RegressionRule(LowerAll(query))
    \/ PlotRule(LowerAll(query))
    \/ DataRule(LowerAll(query))

\* C15: when no keyword rule matches, the fallback returns exactly one
\* sub-question: the original query unchanged, type general, priority 1; when a
\* rule matches, the original query is not among the sub-questions.
C15_FallbackDefault ==
    run.path = "fallback" =>
        IF RuleMatches(complex_query)
        THEN \A i \in 1..Len(sub_questions) :
                sub_questions[i] # SubQuestion(complex_query, "general", 1)
        ELSE /\ Len(sub_questions) = 1
             /\ sub_questions[1].question = complex_query
             /\ sub_questions[1].type = "general"
             /\ sub_questions[1].priority = 1
             /\ sub_questions[1].keys = {"question", "type", "priority"}

\* The fallback ran on a query no rule matches, one that lower() would change
C15_Witness ==
    /\ run.path = "fallback"
    /\ ~RuleMatches(complex_query)
    /\ LowerAll(complex_query) # complex_query
    /\ Len(sub_questions) = 1

\* C16: multi_hop_retrieve processes the sub-questions in ascending priority
\* order, whatever the order of the list it is given.
C16_HopsByPriority ==
    \A i, j \in 1..Len(run.hops) :
        i < j => run.hops[i].sub_q.priority <= run.hops[j].sub_q.priority

\* The tags of the documents hop j retrieved
HopTags(j) ==
    UNION { {TagsOf(run.hops[j].results[d].doc)[t] :
                t \in 1..Len(TagsOf(run.hops[j].results[d].doc))} :
            d \in 1..Len(run.hops[j].results) }

\* C17: context flows forward only. The query of hop k is the question of its
\* sub-question, enhanced only with tags of documents retrieved by hops before
\* k (so the first hop is not enhanced); the context hop k saw is what the
\* hops before it extracted, and the results kept under the question of a hop
\* are the results that hop computed (those of the last hop, when several
\* hops have the same question).
C17_ContextForwardOnly ==
    /\ \A k \in 1..Len(run.hops) :
            /\ run.hops[k].query.question = run.hops[k].sub_q.question
            /\ \A t \in 1..Len(run.hops[k].query.considering) :
                    \E j \in 1..(k - 1) : run.hops[k].query.considering[t] \in HopTags(j)
            /\ \A t \in 1..Len(run.hops[k].context) :
                    \E j \in 1..(k - 1) : run.hops[k].context[t] \in HopTags(j)
    /\ \A k \in 1..Len(run.hops) :
            (~run.hops[k].raised
                /\ \A j \in (k + 1)..Len(run.hops) :
                        run.hops[j].raised \/ run.hops[j].sub_q.question # run.hops[k].sub_q.question)
            => \E i \in 1..Len(retrieval_results) :
                    /\ retrieval_results[i].key = run.hops[k].sub_q.question
                    /\ retrieval_results[i].value = run.hops[k].results

\* A second hop ran with a query enhanced by the tags of the first, and
\* retrieved documents with tags of its own
C17_Witness ==
    /\ Len(run.hops) >= 2
    /\ run.hops[1].query.considering = <<>>
    /\ run.hops[2].query.considering # <<>>
    /\ HopTags(2) # {}
    /\ Len(retrieval_results) >= 2

\* A process_complex_query run is over: it returned, or an exception left it
RunOver == run.entry = "query" /\ stage \in {"Done", "Raised"}

\* C18: every process_complex_query run goes through Decompose, Retrieve,
\* Synthesize, Validate in that order, each once, and then reaches Done: the
\* stages a run has completed are the first ones of that list, and a run that
\* is over has completed all four and is Done.
C18_StageOrder ==
    /\ run.entry = "query" =>
            run.stages = SubSeq(<<"Decompose", "Retrieve", "Synthesize", "Validate">>, 1, Len(run.stages))
    /\ RunOver => (stage = "Done" /\ Len(run.stages) = 4)

\* C19: a hop in which the retriever raises does not abort the run: the hop
\* has the empty list as its result and the run goes on.
C19_HopFailureIsolated ==
    \A k \in 1..Len(run.hops) :
        run.hops[k].raised =>
            /\ stage # "Raised"
            /\ \E i \in 1..Len(retrieval_results) :
                    /\ retrieval_results[i].key = run.hops[k].sub_q.question
                    /\ retrieval_results[i].value = <<>>

\* The contents of the retrieved documents, as a text
RawContext == [i \in 1..Len(run.all_context) |-> Word(run.all_context[i])]

\* C20: when the language-model call of Synthesize fails, the answer of
\* process_complex_query is the raw retrieved document contents, not an error
\* message and not an exception.
C20_SynthesizeDegradesToContext ==
    (run.entry = "query" /\ stage = "Done" /\ run.synthesize_failed /\ run.all_context # <<>>) =>
        final_response = RawContext

\* C21: no exception crosses the boundary of the orchestrator: whatever the
\* collaborators do, process_complex_query returns and never raises.
C21_NoExceptionCrossesBoundary ==
    run.entry = "query" => stage # "Raised"

\* A pickle file of the index is missing or does not unpickle
Unreadable(files) ==
    \E file \in IndexFiles : files[file].state # "ok"

\* A new process starts and restores the store from the disk
RestoreStep ==
    /\ addHist' = NoAdd
    /\ disk' = disk
    /\ <<documents, bm25, embedding_model, hashSeed>>' # <<documents, bm25, embedding_model, hashSeed>>

\* C22: a restore that finds the index file or the corpus file missing or
\* unreadable leaves the store empty as a whole: no document, no lexical
\* index, and no vector entry for a document the corpus does not contain.
C22_RestoreDegradesToEmpty ==
    [][ (RestoreStep /\ Unreadable(disk)) =>
            /\ documents' = <<>>
            /\ bm25' = NoBM25
            /\ \A i \in 1..Len(collection'.entries) :
                    \E j \in 1..Len(documents') : documents'[j].id = collection'.entries[i].id ]_vars

\* The scores of a result list
Scores(results) == [i \in 1..Len(results) |-> results[i].score]

\* The normalized scores of a pass lie in [0, 1] (in thousandths), the maximum
\* normalizes to 1 when it is positive, and all normalize to 0 when it is 0
InUnitInterval(results) ==
    LET raw == Scores(results)
        normalized == Scores(Normalize(results))
    IN  /\ \A i \in 1..Len(normalized) : 0 <= normalized[i] /\ normalized[i] <= 1000
        /\ \A i \in 1..Len(raw) :
                (raw[i] = MaxSeq(raw) /\ raw[i] > 0) => normalized[i] = 1000
        /\ (raw # <<>> /\ MaxSeq(raw) = 0) => \A i \in 1..Len(normalized) : normalized[i] = 0

\* C25: normalization stays in [0, 1]: for the score list of either pass of a
\* retrieve call, negative lexical scores and all-zero lists included, every
\* normalized score is in [0, 1], the maximum becomes 1 when positive, and all
\* become 0 when the maximum is 0.
C25_NormalizationInUnitInterval ==
    (last.op = "retrieve" /\ ~Uninitialized(last.bm, last.emb) /\ ~last.raised) =>
        /\ InUnitInterval(BM25Retrieve(last.bm, last.query, last.top_k * 2))
        /\ InUnitInterval(DenseRetrieve(last.coll, last.query, last.top_k * 2))

\* The operations of the deny-list
DenyList == {"system(", "unlink(", "file.remove("}

Hazardous(lines) == \E pattern \in DenyList : CodeHas(lines, pattern)

\* The answer has a Validation Notes section with a note on code block i
NotesName(response, i) ==
    \E h, n \in 1..Len(response) :
        /\ h < n
        /\ response[h] = Word("**Validation Notes:**")
        /\ response[n].tok = "note" /\ response[n].block = i

\* C23: every code block of the synthesized answer that contains a deny-listed
\* operation, whatever its length, is named in the Validation Notes section
\* the validated answer ends with.
C23_ValidateFlagsHazardous ==
    (run.entry = "query" /\ stage = "Done") =>
        \A i \in 1..Len(CodeBlocks(run.synthesized)) :
            Hazardous(CodeBlocks(run.synthesized)[i].lines) => NotesName(final_response, i)

\* A check of _validate_code_block matches the block
MatchesCheck(lines) ==
    \/ Hazardous(lines)
    \/ /\ CodeHas(lines, "library(") /\ ~CodeHas(lines, "install.packages(")
       /\ (CodeHas(lines, "obscurepackage") \/ CodeHas(lines, "rarepkg"))

\* C24: Validate is non-destructive: the validated answer starts with the
\* synthesized answer, unchanged, and is the synthesized answer when no code
\* block matches a check.
C24_ValidateNonDestructive ==
    (run.entry = "query" /\ stage = "Done") =>
        /\ Len(final_response) >= Len(run.synthesized)
        /\ SubSeq(final_response, 1, Len(run.synthesized)) = run.synthesized
        /\ (\A i \in 1..Len(CodeBlocks(run.synthesized)) :
                ~MatchesCheck(CodeBlocks(run.synthesized)[i].lines))
           => final_response = run.synthesized

\* A run whose answer got validation notes after a code block
C24_Witness ==
    /\ run.entry = "query" /\ stage = "Done"
    /\ CodeBlocks(run.synthesized) # <<>>
    /\ Len(final_response) > Len(run.synthesized)

\* The elements of a sequence
Elements(seq) == {seq[i] : i \in 1..Len(seq)}

\* C26: query enhancement only appends. The enhanced query of a hop is its
\* question, unchanged, with or without a hint; the hint holds only tags among
\* the last 3 of the context, only package tags for a package question, only
\* function tags for a function question, and nothing for a question that is
\* not a package, function or concept question.
C26_EnhancementOnlyAppends ==
    \A k \in 1..Len(run.hops) :
        LET h == run.hops[k]
            hint == h.query.considering
        IN  /\ h.query.question = h.sub_q.question
            /\ Elements(hint) \subseteq Elements(LastThree(h.context))
            /\ h.sub_q.type = "package" => \A t \in Elements(hint) : t.kind = "package"
            /\ h.sub_q.type = "function" => \A t \in Elements(hint) : t.kind = "function"
            /\ h.sub_q.type \notin {"package", "function", "concept"} => hint = <<>>

\* The context after hop k
ContextAfter(k) ==
    IF k < Len(run.hops) THEN run.hops[k + 1].context ELSE context_from_previous

\* C27: a hop adds at most 2 tags to the running context, none when its result
\* is empty, and the tags already in the context stay as they are, in place.
C27_AtMostTwoTagsPerHop ==
    \A k \in 1..Len(run.hops) :
        /\ Len(ContextAfter(k)) >= Len(run.hops[k].context)
        /\ SubSeq(ContextAfter(k), 1, Len(run.hops[k].context)) = run.hops[k].context
        /\ Len(ContextAfter(k)) - Len(run.hops[k].context) <= 2
        /\ run.hops[k].results = <<>> => ContextAfter(k) = run.hops[k].context

RECURSIVE HopContents(_)
HopContents(k) ==
    IF k > Len(run.hops) THEN <<>>
    ELSE LET top == SubSeq(run.hops[k].results, 1, Min2(3, Len(run.hops[k].results)))
         IN  [i \in 1..Len(top) |-> top[i].doc.content] \o HopContents(k + 1)

\* Synthesize has run
Synthesized == run.entry = "query" /\ Len(run.stages) >= 3

\* C29: context selection in Synthesize. The documents of the synthesis prompt
\* are the first 10 of the sequence made, hop by hop in hop order, of the top 3
\* results of each hop in rank order; the documents passed as supporting
\* context are the first 5 of the same sequence.
C29_ContextSelection ==
    Synthesized =>
        /\ run.prompt_docs = SubSeq(HopContents(1), 1, Min2(10, Len(HopContents(1))))
        /\ run.context_docs = SubSeq(HopContents(1), 1, Min2(5, Len(HopContents(1))))

\* The types a sub-question may have
QuestionTypes == {"package", "function", "concept", "example", "general"}

\* C30: every sub-question decompose_query returns, on the model path and on
\* the fallback path, has a question text, a type among package, function,
\* concept, example, general, and a priority in 1..3.
C30_WellFormedSubQuestions ==
    Decomposed =>
        \A i \in 1..Len(sub_questions) :
            /\ sub_questions[i].dict
            /\ {"question", "type", "priority"} \subseteq sub_questions[i].keys
            /\ sub_questions[i].question # <<>>
            /\ sub_questions[i].type \in QuestionTypes
            /\ sub_questions[i].priority \in 1..3

====
